---- MODULE Spec2Model ----
(***************************************************************************)
(* read-logger: a Read wrapper (ReadLogger) that counts reads and bytes    *)
(* in a ReadStatsLogger and emits one log line per read.                   *)
(*                                                                         *)
(* The model covers src/src/lib.rs: ReadStatsLogger::new / log,            *)
(* ReadLogger::new / stats / read / seek, and the two collaborators the    *)
(* tests of the crate put around it (std::io::Cursor as the wrapped source *)
(* std::io::BufReader as the buffering layer).                             *)
(***************************************************************************)
EXTENDS Integers, Sequences, FiniteSets, TLC

VARIABLES
    overflow_checks, \* build profile: TRUE = debug/test (+ panics on overflow), FALSE = release (+ wraps)
    inner,           \* the wrapped source, a Cursor: [len, pos]
    bufreader,       \* the BufReader between the two ReadLoggers: [cap, pos, filled]
    logger,          \* tag -> ReadStatsLogger of the ReadLogger with that tag (domain = constructed instances)
    out,             \* the lines handed to the log facade, in emission order
    ret,             \* the last call made by the caller and what it returned
    inner_ret,       \* what the wrapped object returned to the last delegated call
    delivered,       \* tag -> byte counts of the inner reads of that instance that returned Ok, in call order
    panicked,        \* the thread is unwinding from an arithmetic-overflow panic
    nops             \* number of steps the caller has taken after construction

vars == <<overflow_checks, inner, bufreader, logger, out, ret, inner_ret, delivered, panicked, nops>>

(***************************************************************************)
(* Bounds of the model.                                                    *)
(***************************************************************************)
\* usize is modelled with Width bits
Width == 4
\* length of the longest wrapped source
MaxSrcLen == 10
\* largest caller buffer handed to ReadLogger::read
MaxBuf == 4
\* calls made by the caller after construction (ReadLogger specifications)
MaxOps == 4
\* direct ReadStatsLogger::log calls (ReadStatsLogger specification)
MaxLogCalls == 2

\* capacity of the small BufReader (BufReader::with_capacity)
BufCapSmall == 2

Modulus == 2 ^ Width
UsizeMax == Modulus - 1
Usize == 0..UsizeMax

Levels == {"Info", "Debug"}
\* io::ErrorKind values a wrapped source fails with
ErrorKinds == {"Interrupted", "Other"}
InvalidInput == "InvalidInput"

(***************************************************************************)
(* usize arithmetic                                                        *)
(***************************************************************************)
\* a + b on usize: panics under overflow checks, wraps otherwise
UsizeAdd(a, b) ==
    [val |-> (a + b) % Modulus, panic |-> overflow_checks /\ a + b > UsizeMax]

\* (mutation of saturating_sub: the subtraction wraps)
wrapping_sub(a, b) == (a - b) % Modulus

\* usize::saturating_sub
saturating_sub(a, b) == IF a >= b THEN a - b ELSE 0

Min(a, b) == IF a <= b THEN a ELSE b

RECURSIVE SumSeq(_)
SumSeq(s) == IF s = <<>> THEN 0 ELSE s[1] + SumSeq(Tail(s))

(***************************************************************************)
(* Results: io::Result<usize> / io::Result<u64>                            *)
(***************************************************************************)
Ok(v) == [ok |-> TRUE, val |-> v, err |-> ""]
Err(e) == [ok |-> FALSE, val |-> 0, err |-> e]
\* no value: the call unwound instead of returning
Unwound == [ok |-> FALSE, val |-> 0, err |-> "panic"]

\* the ? operator converts the error with From<io::Error> for io::Error
From(e) == e

(***************************************************************************)
(* Log lines.  A line is the level it is emitted at, the human-readable    *)
(* prefix and the comma-separated fields that follow it.                   *)
(***************************************************************************)
\* {} formatting of a usize
Display(n) == ToString(n)

\* usize value of a decimal field
Parse(s) == CHOOSE n \in Usize : Display(n) = s

RECURSIVE Join(_)
Join(fields) == IF fields = <<>> THEN "" ELSE "," \o Head(fields) \o Join(Tail(fields))

\* the text of a line as the log facade receives it
Text(line) == line.prefix \o Join(line.csv)

\* (the format string puts the tag between backquotes, a character a TLA+
\* string cannot hold: BackQuote stands for it)
BackQuote == "'"

HeaderLine(level, tag) ==
    [level  |-> level,
     prefix |-> "Initialize Read logger " \o BackQuote \o tag \o BackQuote,
     csv    |-> <<"tag", "begin", "end", "length", "request_length", "count", "bytes_total">>]

DataLine(level, tag, begin, end, length, request_length, read_count, bytes_total) ==
    [level  |-> level,
     prefix |-> "Read " \o Display(begin) \o "-" \o Display(end) \o " (" \o Display(length)
                \o " bytes). Total requests: " \o Display(read_count)
                \o " (" \o Display(bytes_total) \o " bytes)",
     csv    |-> <<tag, Display(begin), Display(end), Display(length),
                  Display(request_length), Display(read_count), Display(bytes_total)>>]

IsHeader(line) == line.csv[1] = "tag" /\ line.csv[2] = "begin"
IsData(line) == ~IsHeader(line)

(***************************************************************************)
(* ReadStatsLogger                                                         *)
(***************************************************************************)
\* (mutation of ReadStatsLogger::new: the header line is not emitted)
ReadStatsLogger_new_silent(level, tag) ==
    [lines  |-> <<>>,
     logger |-> [tag |-> tag, level |-> level, read_count |-> 0, bytes_total |-> 0]]

ReadStatsLogger_new(level, tag) ==
    [lines  |-> <<HeaderLine(level, tag)>>,
     logger |-> [tag |-> tag, level |-> level, read_count |-> 0, bytes_total |-> 0]]

\* self.read_count += 1; self.bytes_total += length; end = (begin + length).saturating_sub(1); log!(...)
\* A panic leaves the assignments made before it in place and emits nothing.
ReadStatsLogger_log(self, begin, length, request_length) ==
    LET rc == UsizeAdd(self.read_count, 1)
        s1 == [self EXCEPT !.read_count = rc.val]
        bt == UsizeAdd(self.bytes_total, length)
        s2 == [s1 EXCEPT !.bytes_total = bt.val]
        bl == UsizeAdd(begin, length)
        end == saturating_sub(bl.val, 1)
    IN  IF rc.panic THEN [logger |-> self, lines |-> <<>>, panic |-> TRUE]
        ELSE IF bt.panic THEN [logger |-> s1, lines |-> <<>>, panic |-> TRUE]
        ELSE IF bl.panic THEN [logger |-> s2, lines |-> <<>>, panic |-> TRUE]
        ELSE [logger |-> s2,
              lines  |-> <<DataLine(s2.level, s2.tag, begin, end, length, request_length,
                                    s2.read_count, s2.bytes_total)>>,
              panic  |-> FALSE]

(***************************************************************************)
(* Initial state: the process has started, nothing is constructed yet.     *)
(***************************************************************************)
NoCall == [op |-> "none", tag |-> "", arg |-> 0, res |-> Ok(0)]
NoBufReader == [cap |-> 0, pos |-> 0, filled |-> 0]

\* lengths of the wrapped sources
SrcLens == {0, MaxSrcLen}

Init ==
    /\ overflow_checks \in BOOLEAN
    /\ inner \in [len : SrcLens, pos : {0}]
    /\ bufreader = NoBufReader
    /\ logger = <<>>
    /\ out = <<>>
    /\ ret = NoCall
    /\ inner_ret = Ok(0)
    /\ delivered = <<>>
    /\ panicked = FALSE
    /\ nops = 0

(***************************************************************************)
(* Specification of ReadStatsLogger used on its own (tests::check_stats).  *)
(***************************************************************************)
\* sample arguments of log
Begins == {0, 4, UsizeMax}
Lengths == {0, 1, 4, UsizeMax}
RequestLengths == {4, UsizeMax}

InitStats ==
    /\ Init
    /\ inner.len = 0

\* let mut stats = ReadStatsLogger::new(level, "READ")
StatsNew(level) ==
    /\ logger = <<>>
    /\ LET r == ReadStatsLogger_new(level, "READ")
       IN  /\ logger' = ("READ" :> r.logger)
           /\ out' = out \o r.lines
    /\ delivered' = ("READ" :> <<>>)
    /\ ret' = [op |-> "new", tag |-> "READ", arg |-> 0, res |-> Ok(0)]
    /\ UNCHANGED <<overflow_checks, inner, bufreader, inner_ret, panicked, nops>>

\* stats.log(begin, length, request_length)
StatsLog(begin, length, request_length) ==
    /\ "READ" \in DOMAIN logger
    /\ ~panicked
    /\ nops < MaxLogCalls
    /\ LET r == ReadStatsLogger_log(logger["READ"], begin, length, request_length)
       IN  /\ logger' = [logger EXCEPT !["READ"] = r.logger]
           /\ out' = out \o r.lines
           /\ panicked' = r.panic
           /\ ret' = [op |-> "log", tag |-> "READ",
                      arg |-> <<begin, length, request_length>>,
                      res |-> IF r.panic THEN Unwound ELSE Ok(0)]
    /\ nops' = nops + 1
    /\ UNCHANGED <<overflow_checks, inner, bufreader, inner_ret, delivered>>

NextStats ==
    \/ \E level \in Levels : StatsNew(level)
    \/ \E b \in Begins, l \in Lengths, q \in RequestLengths : StatsLog(b, l, q)

SpecStats == InitStats /\ [][NextStats]_vars

(***************************************************************************)
(* The wrapped source of the tests: std::io::Cursor over len bytes, which  *)
(* stands for any T: Read + Seek; fault is the io::ErrorKind the source    *)
(* fails with on this call, or "none".                                     *)
(***************************************************************************)
SeekFroms ==
    { [whence |-> "Start", off |-> 0], [whence |-> "Start", off |-> 4],
      [whence |-> "Current", off |-> -1], [whence |-> "End", off |-> 0] }

\* self.inner.read(buf) with buf.len() = n
Inner_read(c, n, fault) ==
    IF fault # "none" THEN [inner |-> c, res |-> Err(fault)]
    ELSE LET k == Min(n, c.len - Min(c.pos, c.len))
         IN  [inner |-> [c EXCEPT !.pos = c.pos + k], res |-> Ok(k)]

\* self.inner.seek(pos)
Inner_seek(c, pos, fault) ==
    LET base == CASE pos.whence = "Start" -> 0
                  [] pos.whence = "End" -> c.len
                  [] pos.whence = "Current" -> c.pos
        target == base + pos.off
    IN  IF fault # "none" THEN [inner |-> c, res |-> Err(fault)]
        ELSE IF target < 0 THEN [inner |-> c, res |-> Err(InvalidInput)]
        ELSE [inner |-> [c EXCEPT !.pos = target], res |-> Ok(target)]

(***************************************************************************)
(* ReadLogger<T>                                                           *)
(***************************************************************************)
\* ReadLogger::new(read, level, tag): the struct and the lines its construction emits
ReadLogger_new(read, level, tag) ==
    LET l == ReadStatsLogger_new(level, tag)
    IN  [self |-> [inner |-> read, logger |-> l.logger], lines |-> l.lines]

\* ReadLogger::stats
ReadLogger_stats(self) == self.logger

\* (mutation of ReadLogger::read: the request-counting policy, which logs the
\* size of the buffer offered instead of the bytes delivered)
ReadLogger_read_requested(stats, inner_res, buf_len) ==
    IF ~inner_res.ok
    THEN [logger |-> stats, lines |-> <<>>, res |-> Err(From(inner_res.err)), panic |-> FALSE]
    ELSE LET l == ReadStatsLogger_log(stats, 0, buf_len, buf_len)
         IN  [logger |-> l.logger, lines |-> l.lines,
              res |-> IF l.panic THEN Unwound ELSE Ok(inner_res.val), panic |-> l.panic]

\* (mutation of ReadLogger::read: a failure of the wrapped source is swallowed
\* and logged as a read of no bytes)
ReadLogger_read_swallowing(stats, inner_res, buf_len) ==
    LET n == IF inner_res.ok THEN inner_res.val ELSE 0
        l == ReadStatsLogger_log(stats, 0, n, buf_len)
    IN  [logger |-> l.logger, lines |-> l.lines,
         res |-> IF l.panic THEN Unwound ELSE Ok(n), panic |-> l.panic]

\* ReadLogger::read after the delegated call: inner_res is what
\* self.inner.read(buf) returned, buf_len is buf.len(); stats is self.logger
ReadLogger_read(stats, inner_res, buf_len) ==
    IF ~inner_res.ok
    THEN [logger |-> stats, lines |-> <<>>, res |-> Err(From(inner_res.err)), panic |-> FALSE]
    ELSE LET l == ReadStatsLogger_log(stats, 0, inner_res.val, buf_len)
         IN  [logger |-> l.logger, lines |-> l.lines,
              res |-> IF l.panic THEN Unwound ELSE Ok(inner_res.val), panic |-> l.panic]

\* (mutation of ReadLogger::seek: a successful seek is logged like a read
\* that begins at the new offset)
ReadLogger_seek_logging(stats, inner_res) ==
    IF ~inner_res.ok
    THEN [logger |-> stats, lines |-> <<>>, res |-> inner_res, panic |-> FALSE]
    ELSE LET l == ReadStatsLogger_log(stats, inner_res.val % Modulus, 0, 0)
         IN  [logger |-> l.logger, lines |-> l.lines,
              res |-> IF l.panic THEN Unwound ELSE inner_res, panic |-> l.panic]

\* ReadLogger::seek after the delegated call: inner_res is what self.inner.seek(pos) returned
ReadLogger_seek(stats, inner_res) ==
    [logger |-> stats, lines |-> <<>>, res |-> inner_res, panic |-> FALSE]

\* read on a ReadLogger<Cursor>: the delegated call, then the rest of ReadLogger::read
ReadLoggerCursor_read(self, n, fault) ==
    LET i == Inner_read(self.inner, n, fault)
        r == ReadLogger_read(self.logger, i.res, n)
    IN  [self |-> [inner |-> i.inner, logger |-> r.logger], lines |-> r.lines,
         res |-> r.res, inner_res |-> i.res, panic |-> r.panic]

\* seek on a ReadLogger<Cursor>
ReadLoggerCursor_seek(self, pos, fault) ==
    LET i == Inner_seek(self.inner, pos, fault)
        r == ReadLogger_seek(self.logger, i.res)
    IN  [self |-> [inner |-> i.inner, logger |-> r.logger], lines |-> r.lines,
         res |-> r.res, inner_res |-> i.res, panic |-> r.panic]

\* the byte counts delivered so far, with the one of this inner result
Record(hist, inner_res) == IF inner_res.ok THEN Append(hist, inner_res.val) ELSE hist

\* for _ in 0..k { reader.read(&mut [])? }: k reads with an empty buffer
RECURSIVE ReadTimes(_, _)
ReadTimes(st, k) ==
    IF k = 0 \/ st.panic \/ ~st.res.ok THEN st
    ELSE LET r == ReadLoggerCursor_read(st.self, 0, "none")
         IN  ReadTimes([self |-> r.self, lines |-> st.lines \o r.lines,
                        hist |-> Record(st.hist, r.inner_res),
                        res |-> r.res, inner_res |-> r.inner_res, panic |-> r.panic], k - 1)

(***************************************************************************)
(* Specification of one ReadLogger over a Cursor (tests::read_cursor,      *)
(* tests::seek).                                                           *)
(***************************************************************************)
\* sizes of the buffers the caller reads into
BufLens == {0, 1, MaxBuf, MaxSrcLen}

\* number of empty-buffer reads the caller makes in one loop
Burst == UsizeMax - 1

Reader == [inner |-> inner, logger |-> logger["READ"]]

\* let mut reader = ReadLogger::new(Cursor::new(text), level, "READ")
New(level) ==
    /\ logger = <<>>
    /\ LET r == ReadLogger_new(inner, level, "READ")
       IN  /\ inner' = r.self.inner
           /\ logger' = ("READ" :> r.self.logger)
           /\ out' = out \o r.lines
    /\ delivered' = ("READ" :> <<>>)
    /\ ret' = [op |-> "new", tag |-> "READ", arg |-> 0, res |-> Ok(0)]
    /\ UNCHANGED <<overflow_checks, bufreader, inner_ret, panicked, nops>>

CanCall ==
    /\ "READ" \in DOMAIN logger
    /\ ~panicked
    /\ nops < MaxOps

\* reader.read(&mut buf) with buf.len() = n
Read(n, fault) ==
    /\ CanCall
    /\ LET r == ReadLoggerCursor_read(Reader, n, fault)
       IN  /\ inner' = r.self.inner
           /\ logger' = [logger EXCEPT !["READ"] = r.self.logger]
           /\ out' = out \o r.lines
           /\ delivered' = [delivered EXCEPT !["READ"] = Record(delivered["READ"], r.inner_res)]
           /\ ret' = [op |-> "read", tag |-> "READ", arg |-> n, res |-> r.res]
           /\ inner_ret' = r.inner_res
           /\ panicked' = r.panic
    /\ nops' = nops + 1
    /\ UNCHANGED <<overflow_checks, bufreader>>

\* reader.seek(pos)
Seek(pos, fault) ==
    /\ CanCall
    /\ LET r == ReadLoggerCursor_seek(Reader, pos, fault)
       IN  /\ inner' = r.self.inner
           /\ logger' = [logger EXCEPT !["READ"] = r.self.logger]
           /\ out' = out \o r.lines
           /\ ret' = [op |-> "seek", tag |-> "READ", arg |-> pos, res |-> r.res]
           /\ inner_ret' = r.inner_res
           /\ panicked' = r.panic
    /\ nops' = nops + 1
    /\ UNCHANGED <<overflow_checks, bufreader, delivered>>

\* Burst reads with an empty buffer, one after the other
ReadBurst ==
    /\ CanCall
    /\ LET r == ReadTimes([self |-> Reader, lines |-> <<>>, hist |-> delivered["READ"],
                           res |-> Ok(0), inner_res |-> Ok(0), panic |-> FALSE], Burst)
       IN  /\ inner' = r.self.inner
           /\ logger' = [logger EXCEPT !["READ"] = r.self.logger]
           /\ out' = out \o r.lines
           /\ delivered' = [delivered EXCEPT !["READ"] = r.hist]
           /\ ret' = [op |-> "read_loop", tag |-> "READ", arg |-> 0, res |-> r.res]
           /\ inner_ret' = r.inner_res
           /\ panicked' = r.panic
    /\ nops' = nops + 1
    /\ UNCHANGED <<overflow_checks, bufreader>>

\* the wrapped source fails the read
ReadFails(n, e) == Read(n, e)

\* the wrapped source fails the seek
SeekFails(pos, e) == Seek(pos, e)

Next ==
    \/ New("Info")
    \/ \E n \in BufLens : Read(n, "none")
    \/ \E e \in ErrorKinds : ReadFails(MaxBuf, e)
    \/ \E pos \in SeekFroms : Seek(pos, "none")
    \/ \E e \in ErrorKinds : SeekFails([whence |-> "Start", off |-> 0], e)
    \/ ReadBurst

Spec == Init /\ [][Next]_vars

(***************************************************************************)
(* std::io::BufReader over &mut ReadLogger<Cursor>, and a second           *)
(* ReadLogger over it (tests::buf_reader).                                 *)
(***************************************************************************)
\* capacities of the BufReader: smaller than a request, larger than the source
BufCaps == {BufCapSmall, MaxSrcLen + 2}

\* BufReader::read when the request goes past the internal buffer: a is the
\* outcome of the read passed down to the borrowed ReadLogger
BufReader_bypass(br, a) ==
    [br |-> [br EXCEPT !.pos = 0, !.filled = 0], lower |-> a.self, lines |-> a.lines,
     res |-> a.res, called |-> TRUE, lower_inner |-> a.inner_res, panic |-> a.panic]

\* BufReader::read after fill_buf has read into the empty internal buffer: a is
\* the outcome of that read of cap bytes
BufReader_refill(br, a, n) ==
    IF a.panic \/ ~a.res.ok
    THEN BufReader_bypass(br, a)
    ELSE [br |-> [br EXCEPT !.pos = Min(n, a.res.val), !.filled = a.res.val],
          lower |-> a.self, lines |-> a.lines, res |-> Ok(Min(n, a.res.val)),
          called |-> TRUE, lower_inner |-> a.inner_res, panic |-> FALSE]

\* BufReader::read with buf.len() = n; lower is the borrowed ReadLogger<Cursor>.
\* An empty internal buffer and a request of at least the capacity bypass the
\* buffer; an empty internal buffer is otherwise filled by one lower read of
\* cap bytes; the request is then served from the internal buffer.
BufReader_read(br, lower, n, fault) ==
    IF br.pos = br.filled /\ n >= br.cap
    THEN BufReader_bypass(br, ReadLoggerCursor_read(lower, n, fault))
    ELSE IF br.pos >= br.filled
    THEN BufReader_refill(br, ReadLoggerCursor_read(lower, br.cap, fault), n)
    ELSE [br |-> [br EXCEPT !.pos = br.pos + Min(n, br.filled - br.pos)], lower |-> lower,
          lines |-> <<>>, res |-> Ok(Min(n, br.filled - br.pos)), called |-> FALSE,
          lower_inner |-> Ok(0), panic |-> FALSE]

\* the outer ReadLogger::read given the outcome i of the read on its BufReader
\* and the outcome r of the rest of ReadLogger::read
ReadLoggerBuf_result(i, r) ==
    [logger |-> r.logger, br |-> i.br, lower |-> i.lower, lines |-> i.lines \o r.lines,
     res |-> r.res, inner_res |-> i.res, called |-> i.called,
     lower_inner |-> i.lower_inner, panic |-> r.panic]

\* the rest of the outer ReadLogger::read after its BufReader returned i (a
\* panic below unwinds through it)
ReadLoggerBuf_after(stats, i, n) ==
    ReadLoggerBuf_result(i,
        IF i.panic
        THEN [logger |-> stats, lines |-> <<>>, res |-> Unwound, panic |-> TRUE]
        ELSE ReadLogger_read(stats, i.res, n))

\* read on the outer ReadLogger<BufReader<&mut ReadLogger<Cursor>>>
ReadLoggerBuf_read(stats, br, lower, n, fault) ==
    ReadLoggerBuf_after(stats, BufReader_read(br, lower, n, fault), n)

\* let mut cursor = ReadLogger::new(Cursor::new(text), Level::Debug, "READ")
NewCursor == New("Debug")

\* let mut buffer = ReadLogger::new(BufReader::with_capacity(cap, &mut cursor), Level::Info, "BUFFER")
NewBuffer(cap) ==
    /\ DOMAIN logger = {"READ"}
    /\ LET r == ReadLogger_new([cap |-> cap, pos |-> 0, filled |-> 0], "Info", "BUFFER")
       IN  /\ bufreader' = r.self.inner
           /\ logger' = logger @@ ("BUFFER" :> r.self.logger)
           /\ out' = out \o r.lines
    /\ delivered' = delivered @@ ("BUFFER" :> <<>>)
    /\ ret' = [op |-> "new", tag |-> "BUFFER", arg |-> 0, res |-> Ok(0)]
    /\ UNCHANGED <<overflow_checks, inner, inner_ret, panicked, nops>>

\* the state after buffer.read(&mut buf) with outcome r
BufferReadEffect(r, n) ==
    /\ inner' = r.lower.inner
    /\ bufreader' = r.br
    /\ logger' = [logger EXCEPT !["READ"] = r.lower.logger, !["BUFFER"] = r.logger]
    /\ out' = out \o r.lines
    /\ delivered' = [delivered EXCEPT
                        !["READ"] = IF r.called THEN Record(delivered["READ"], r.lower_inner)
                                    ELSE delivered["READ"],
                        !["BUFFER"] = Record(delivered["BUFFER"], r.inner_res)]
    /\ ret' = [op |-> "read", tag |-> "BUFFER", arg |-> n, res |-> r.res]
    /\ inner_ret' = r.inner_res
    /\ panicked' = r.panic

\* buffer.read(&mut buf) with buf.len() = n
BufferRead(n, fault) ==
    /\ "BUFFER" \in DOMAIN logger
    /\ ~panicked
    /\ nops < MaxOps
    /\ BufferReadEffect(ReadLoggerBuf_read(logger["BUFFER"], bufreader, Reader, n, fault), n)
    /\ nops' = nops + 1
    /\ UNCHANGED overflow_checks

\* the Cursor fails the read the BufReader passes down
BufferReadFails(n, e) == BufferRead(n, e)

NextLayered ==
    \/ NewCursor
    \/ \E cap \in BufCaps : NewBuffer(cap)
    \/ \E n \in BufLens : BufferRead(n, "none")
    \/ \E e \in ErrorKinds : BufferReadFails(MaxBuf, e)

SpecLayered == Init /\ [][NextLayered]_vars

(***************************************************************************)
(* Properties                                                              *)
(***************************************************************************)
Constructed(tag) == tag \in DOMAIN logger

\* the data lines of the instance with this tag, in emission order
DataLines(tag) == SelectSeq(out, LAMBDA l : IsData(l) /\ l.csv[1] = tag)

\* the header lines of the instance with this tag
HeaderLines(tag) == SelectSeq(out, LAMBDA l : IsHeader(l) /\ l = HeaderLine(l.level, tag))

\* the step is a call of the caller (every call after construction counts one)
IsCall == nops' # nops

\* C1 as stated: whenever a read has returned, read_count is the number of
\* inner reads that returned Ok so far and bytes_total is the sum of the byte
\* counts they delivered, as plain (unbounded) numbers.
C1_DeliveryCountingExact ==
    (Constructed("READ") /\ ~panicked) =>
        /\ logger["READ"].read_count = Len(delivered["READ"])
        /\ logger["READ"].bytes_total = SumSeq(delivered["READ"])

\* C1 (amended): whenever a read has returned, read_count equals the number of
\* inner reads that returned Ok so far modulo 2^Width, and bytes_total equals
\* the sum of the byte counts those reads delivered (not of the buffer sizes
\* requested) modulo 2^Width.
C1_DeliveryCounting ==
    (Constructed("READ") /\ ~panicked) =>
        /\ logger["READ"].read_count = Len(delivered["READ"]) % Modulus
        /\ logger["READ"].bytes_total = SumSeq(delivered["READ"]) % Modulus

\* C1 witness: a 10-byte source, three 4-byte requests that delivered 4, 4 and
\* 2 bytes; the counters read 3 and 10.
C1_Witness ==
    /\ Constructed("READ") /\ ~panicked
    /\ inner.len = 10
    /\ ret.op = "read" /\ ret.arg = 4 /\ ret.res = Ok(2)
    /\ delivered["READ"] = <<4, 4, 2>>
    /\ logger["READ"].read_count = 3
    /\ logger["READ"].bytes_total = 10

\* C2: a read whose inner read fails returns exactly the inner failure, leaves
\* read_count and bytes_total (the whole ReadStatsLogger) unchanged and emits
\* no line; a read that returns Ok(n) afterwards adds 1 and n to the unchanged
\* values.
C2_FailedReadStep ==
    /\ (IsCall /\ ret'.op = "read" /\ ~inner_ret'.ok) =>
           /\ ret'.res = inner_ret'
           /\ ret'.res.err \in ErrorKinds
           /\ logger' = logger
           /\ out' = out
    /\ (IsCall /\ ret'.op = "read" /\ ret'.res.ok) =>
           /\ logger'["READ"].read_count = (logger["READ"].read_count + 1) % Modulus
           /\ logger'["READ"].bytes_total = (logger["READ"].bytes_total + ret'.res.val) % Modulus

C2_FailedReadLeavesCounters == [][C2_FailedReadStep]_vars

\* C2 witness: a read has failed after an earlier read had counted bytes.
C2_Witness ==
    /\ Constructed("READ")
    /\ ret.op = "read" /\ ~ret.res.ok /\ ret.res.err = "Interrupted"
    /\ logger["READ"].read_count = 1
    /\ logger["READ"].bytes_total = 4
    /\ Len(out) = 2

\* C3: a seek, successful or failing, returns the result of the inner seek
\* unchanged, leaves the ReadStatsLogger (read_count, bytes_total, tag, level)
\* unchanged and emits no line; every line a read emits carries begin = 0
\* whatever position was sought.
C3_SeekStep ==
    /\ (IsCall /\ ret'.op = "seek") =>
           /\ ret'.res = inner_ret'
           /\ logger' = logger
           /\ out' = out
    /\ (IsCall /\ ret'.op = "read") =>
           \A i \in (Len(out) + 1)..Len(out') : out'[i].csv[2] = Display(0)

C3_SeekLeavesCounters == [][C3_SeekStep]_vars

\* C3 witness: seek to offset 4, then one 4-byte read: read_count is 1,
\* bytes_total is 4 and the line says begin = 0.
C3_Witness ==
    /\ Constructed("READ")
    /\ nops = 2 /\ ret.op = "read" /\ ret.arg = 4 /\ ret.res = Ok(4)
    /\ inner.pos = 8
    /\ logger["READ"].read_count = 1
    /\ logger["READ"].bytes_total = 4
    /\ out[Len(out)].csv[2] = "0"

\* C4: right after construction read_count = 0, bytes_total = 0 and the log
\* holds exactly one line, the header; nothing is emitted before construction,
\* and afterwards the header is the first line and the only header, so it
\* precedes every data line of the instance.
C4_HeaderFirst ==
    /\ ~Constructed("READ") => out = <<>>
    /\ Constructed("READ") =>
           /\ Len(out) >= 1
           /\ out[1] = HeaderLine(logger["READ"].level, "READ")
           /\ \A i \in 2..Len(out) : IsData(out[i])
    /\ ret.op = "new" =>
           /\ logger["READ"].read_count = 0
           /\ logger["READ"].bytes_total = 0
           /\ out = <<HeaderLine(logger["READ"].level, "READ")>>

\* C4 witness: a data line has been emitted after the header.
C4_Witness ==
    /\ Constructed("READ")
    /\ Len(out) = 3
    /\ IsHeader(out[1]) /\ IsData(out[2]) /\ IsData(out[3])

\* what ReadStatsLogger::log was called with in the step
begin_arg == ret'.arg[1]
length_arg == ret'.arg[2]
request_length_arg == ret'.arg[3]

\* C5: every call of log adds exactly 1 to read_count and exactly length to
\* bytes_total (both modulo 2^Width, the documented wraparound), nothing else
\* changes the counters, and read_count after N calls is N (modulo 2^Width).
C5_LogStep ==
    /\ IsCall =>
           /\ logger'["READ"].read_count = (logger["READ"].read_count + 1) % Modulus
           /\ logger'["READ"].bytes_total = (logger["READ"].bytes_total + length_arg) % Modulus
           /\ logger'["READ"].read_count = nops' % Modulus
    /\ (~IsCall /\ Constructed("READ")) => logger' = logger

C5_Monotonic == [][C5_LogStep]_vars

\* the end offset the data line is to carry: begin + length - 1, and 0 for an
\* empty read at 0
EndOf(begin, length) == IF begin + length >= 1 THEN begin + length - 1 ELSE 0

\* C7: every call log(begin, length, request_length) emits exactly one data
\* line; its fields are tag, begin, end, length, request_length, the new
\* read_count, the new bytes_total, with end = begin + length - 1 (0 when
\* begin = length = 0), and the prefix carries the same values.
C7_LogStep ==
    IsCall =>
        LET l == logger'["READ"]
            e == EndOf(begin_arg, length_arg)
        IN  /\ Len(out') = Len(out) + 1
            /\ out'[Len(out')].csv =
                   <<"READ", Display(begin_arg), Display(e), Display(length_arg),
                     Display(request_length_arg), Display(l.read_count), Display(l.bytes_total)>>
            /\ out'[Len(out')].prefix =
                   "Read " \o Display(begin_arg) \o "-" \o Display(e) \o " (" \o Display(length_arg)
                   \o " bytes). Total requests: " \o Display(l.read_count)
                   \o " (" \o Display(l.bytes_total) \o " bytes)"

C7_DataLine == [][C7_LogStep]_vars

\* C8: no call of log fails: whatever begin, length and request_length are,
\* the call completes, the counters hold the sums modulo 2^Width and one data
\* line has been emitted.
C8_LogStep ==
    IsCall =>
        /\ ~panicked'
        /\ ret'.res.ok
        /\ logger'["READ"].read_count = (logger["READ"].read_count + 1) % Modulus
        /\ logger'["READ"].bytes_total = (logger["READ"].bytes_total + length_arg) % Modulus
        /\ Len(out') = Len(out) + 1

C8_Infallible == [][C8_LogStep]_vars

\* C9: a read that returns Ok(0) adds 1 to read_count (modulo 2^Width), leaves
\* bytes_total unchanged and emits exactly one data line, with begin = 0,
\* end = 0, length = 0 and request_length = the size of the buffer; a read that
\* returns Ok(1) emits a line with the same begin and end.
C9_EmptyReadStep ==
    /\ (IsCall /\ ret'.op = "read" /\ ret'.res = Ok(0)) =>
           /\ logger'["READ"].read_count = (logger["READ"].read_count + 1) % Modulus
           /\ logger'["READ"].bytes_total = logger["READ"].bytes_total
           /\ out' = Append(out, DataLine(logger["READ"].level, "READ", 0, 0, 0, ret'.arg,
                                          logger'["READ"].read_count, logger'["READ"].bytes_total))
    /\ (IsCall /\ ret'.op = "read" /\ ret'.res = Ok(1)) =>
           /\ Len(out') = Len(out) + 1
           /\ out'[Len(out')].csv[2] = "0"
           /\ out'[Len(out')].csv[3] = "0"
           /\ out'[Len(out')].csv[4] = "1"

C9_EmptyReadCounts == [][C9_EmptyReadStep]_vars

\* C9 witness: a 4-byte read on the exhausted 10-byte source returned Ok(0):
\* read_count is 2 although one read delivered data.
C9_Witness ==
    /\ Constructed("READ") /\ ~panicked
    /\ inner.len = 10
    /\ ret.op = "read" /\ ret.arg = 4 /\ ret.res = Ok(0)
    /\ delivered["READ"] = <<10, 0>>
    /\ logger["READ"].read_count = 2
    /\ logger["READ"].bytes_total = 10
    /\ Text(out[Len(out)]) = "Read 0-0 (0 bytes). Total requests: 2 (10 bytes),READ,0,0,0,4,2,10"

\* the byte counts of the reads that returned Ok to the caller: the inner reads
\* that returned Ok, less the one whose ReadLogger::read is unwinding
Returned(tag) ==
    IF panicked /\ delivered[tag] # <<>>
    THEN SubSeq(delivered[tag], 1, Len(delivered[tag]) - 1)
    ELSE delivered[tag]

\* C10: the log of a ReadLogger is its header followed by exactly read_count
\* data lines, one per successful read in call order; the k-th carries count k,
\* begin 0, the bytes that read delivered and a bytes_total equal to the
\* previous line's plus its own length (0 before the first); the last line's
\* count and bytes_total are those stats() returns.  (Counts and totals are
\* compared modulo 2^Width, as the counters wrap.)
C10_LogSequence ==
    Constructed("READ") =>
        LET d == DataLines("READ")
            stats == ReadLogger_stats(Reader)
        IN  /\ out = <<HeaderLine(stats.level, "READ")>> \o d
            /\ Len(d) % Modulus = stats.read_count
            /\ Len(d) = Len(Returned("READ"))
            /\ \A k \in 1..Len(d) :
                   /\ d[k].csv[2] = "0"
                   /\ d[k].csv[4] = Display(Returned("READ")[k])
                   /\ d[k].csv[6] = Display(k % Modulus)
                   /\ Parse(d[k].csv[7]) =
                          ((IF k = 1 THEN 0 ELSE Parse(d[k - 1].csv[7])) + Parse(d[k].csv[4])) % Modulus
            /\ (ret.op = "read" /\ ret.res.ok) => d[Len(d)].csv[5] = Display(ret.arg)
            /\ Len(d) > 0 =>
                   /\ d[Len(d)].csv[6] = Display(stats.read_count)
                   /\ d[Len(d)].csv[7] = Display(stats.bytes_total)

\* C6: through the layers, a read on the outer ReadLogger that returns Ok(n)
\* adds 1 and n to the outer counters only; the inner ReadLogger counts only
\* the reads the BufReader issues to it, with the bytes the source delivered to
\* them; on a 10-byte source and a buffer larger than it, two 4-byte reads
\* leave the outer counters at 2 and 8 and the inner ones at 1 and 10.
C6_LayerStep ==
    (IsCall /\ ret'.op = "read" /\ ret'.tag = "BUFFER") =>
        LET a == logger["READ"]      a2 == logger'["READ"]
            b == logger["BUFFER"]    b2 == logger'["BUFFER"]
            issued == Len(delivered'["READ"]) - Len(delivered["READ"])
        IN  /\ ret'.res.ok =>
                   /\ b2.read_count = (b.read_count + 1) % Modulus
                   /\ b2.bytes_total = (b.bytes_total + ret'.res.val) % Modulus
            /\ ~ret'.res.ok => b2 = b
            /\ issued \in {0, 1}
            /\ issued = 0 => a2 = a
            /\ issued = 1 =>
                   /\ a2.read_count = (a.read_count + 1) % Modulus
                   /\ a2.bytes_total =
                          (a.bytes_total + delivered'["READ"][Len(delivered'["READ"])]) % Modulus
            /\ (inner'.len = 10 /\ bufreader'.cap > 10 /\ delivered'["BUFFER"] = <<4, 4>>) =>
                   /\ b2.read_count = 2 /\ b2.bytes_total = 8
                   /\ a2.read_count = 1 /\ a2.bytes_total = 10

C6_LayersCountIndependently == [][C6_LayerStep]_vars

\* C6 witness: two 4-byte reads through the outer ReadLogger on a 10-byte
\* source with a 12-byte buffer.
C6_Witness ==
    /\ Constructed("BUFFER")
    /\ inner.len = 10 /\ bufreader.cap > 10
    /\ nops = 2 /\ ret.op = "read" /\ ret.arg = 4 /\ ret.res = Ok(4)
    /\ delivered["BUFFER"] = <<4, 4>>
    /\ delivered["READ"] = <<10>>
    /\ logger["BUFFER"].read_count = 2 /\ logger["BUFFER"].bytes_total = 8
    /\ logger["READ"].read_count = 1 /\ logger["READ"].bytes_total = 10

====
